---- MODULE Spec2Model ----
(***************************************************************************)
(* txSpy object browser (src/txspy/objectbrowser.py): the periodic sampler *)
(* ObjectBrowser.updateStats, its per-type RingBuffer histories and the    *)
(* service life cycle (startService / stopService) around a Twisted        *)
(* LoopingCall.  Everything runs in the reactor thread, so every handler   *)
(* is one atomic action.                                                   *)
(***************************************************************************)
EXTENDS Integers, Sequences, FiniteSets, TLC

(* ---------------------------------------------------------------- bounds *)
\* Largest configured sampleHistorySize explored (0 stands for every
\* non-positive size: RingBuffer.__init__ only tests size > 0).
MaxC == 3
\* Largest number of live objects of one type in a census.
MaxCount == 1
\* Number of LoopingCall firings explored; the clock is the timestamp source.
MaxClock == 4
\* The same, in the runs in which a merge may fail part-way.
MaxFaultClock == 2
\* RingBuffer-only runs: the longest argument handed to RingBuffer.extend and
\* the number of values handed to the buffer in all.
MaxExtend == 2
MaxLog == 5
\* Number of LoopingCall firings explored in the runs with a reader.
MaxReadClock == 2
\* The same, in the runs that follow updateStats statement by statement.
MaxStepClock == 2
\* Runs with larger censuses: the largest number of live objects of one
\* type, and the number of LoopingCall firings explored.
MaxGroupCount == 3
MaxGroupClock == 2
MaxDebugClock == 3

\* The type names the census can report, and their sort order (sorted()).
NameOrder == <<"A", "B">>
TypeNames == {NameOrder[i] : i \in 1..Len(NameOrder)}

VARIABLES
    sampleHistorySize,  \* ObjectBrowser._sampleHistorySize
    history,            \* ObjectBrowser._history: None or a dict name -> RingBuffer
    timestamps,         \* ObjectBrowser._timestamps: None or a RingBuffer
    loopRunning,        \* LoopingCall.running of ObjectBrowser._loop
    running,            \* twisted Service.running
    clock,              \* time.time(), one unit per LoopingCall firing
    lastTick,           \* what the last firing of the loop reported through err
    censusLog,          \* observer: the last censuses merged into this store
    rb,                 \* a stand-alone RingBuffer (RingBuffer-only runs)
    rbLog,              \* observer: every value handed to rb, in order
    rbExtended,         \* observer: extend has been called on rb
    called,             \* observer: the last handler invoked and what it raised
    readerSeen,         \* a reader: None or what its last read returned
    readerHeld,         \* a reader: what the object it was handed holds now
    readerLive,         \* a reader: that object is the one the service mutates
    inFlight,           \* the calls of updateStats begun and not yet returned
    errs,               \* observer: the calls of err made by the last call of
                        \* the loop's lambda, in order
    request,            \* a graph request between getChild and render_GET:
                        \* None or the type name getChild has accepted
    startIssued,        \* observer: startService has been issued since
                        \* construction or since the last accepted stopService
    debug,              \* what self.debug resolves to: the class's no-op
                        \* lambda, the bound msg, or the function taken from
                        \* the class and stored on the instance
    debugLog            \* observer: the last two calls of enableDebug and
                        \* disableDebug, oldest first

vars == <<sampleHistorySize, history, timestamps, loopRunning, running, clock,
          lastTick, censusLog, rb, rbLog, rbExtended, called, readerSeen,
          readerHeld, readerLive, inFlight, errs, request, startIssued,
          debug, debugLog>>

samplerVars == <<sampleHistorySize, history, timestamps, loopRunning, running,
                 clock, lastTick, censusLog, called, inFlight, errs, request,
                 startIssued, debug, debugLog>>
ringVars == <<rb, rbLog, rbExtended>>
readerVars == <<readerSeen, readerHeld, readerLive>>

(* ------------------------------------------------------- Python's None *)
None == {}
Some(x) == {x}
Val(o) == CHOOSE x \in o : TRUE

\* Both attributes of the store are set.
StorePresent == history # None /\ timestamps # None

(* ---------------------------------------------------------- RingBuffer *)
\* RingBuffer.__init__ raises AssertionError unless size > 0.
RingBuffer_init_raises(size) == ~(size > 0)

RingBuffer_init(size) == [maxSize |-> size, collection |-> <<>>]

RingBuffer_len(b) == Len(b.collection)

\* Variant: the buffer is shifted as soon as it is full (>= for >).
RingBuffer_append_shiftEarly(b, x) ==
    LET appended == [b EXCEPT !.collection = Append(b.collection, x)]
    IN  IF RingBuffer_len(appended) >= b.maxSize
        THEN [appended EXCEPT !.collection = Tail(appended.collection)]
        ELSE appended

\* Variant: pop() for popleft(): the newest element is dropped.
RingBuffer_append_popRight(b, x) ==
    LET appended == [b EXCEPT !.collection = Append(b.collection, x)]
    IN  IF RingBuffer_len(appended) > b.maxSize
        THEN [appended EXCEPT !.collection = b.collection]
        ELSE appended

RingBuffer_append(b, x) ==
    LET appended == [b EXCEPT !.collection = Append(b.collection, x)]
    IN  IF RingBuffer_len(appended) > b.maxSize
        THEN [appended EXCEPT !.collection = Tail(appended.collection)]
        ELSE appended

\* deque.extend: no eviction at all.
RingBuffer_extend(b, xs) == [b EXCEPT !.collection = b.collection \o xs]

RingBuffer_iter(b) == b.collection

(* ------------------------------------------------------------- helpers *)
\* itertools.repeat(x, n)
repeat(x, n) == [i \in 1..n |-> x]

\* count(iterable): one increment per item.
RECURSIVE count(_)
count(iterable) ==
    IF iterable = <<>> THEN 0 ELSE 1 + count(Tail(iterable))

\* sorted(imap(getTypeName, gc.get_objects())): the live objects are given as
\* a bag name -> number of live objects; sorting lists them name by name.
RECURSIVE sortedFrom(_, _)
sortedFrom(live, i) ==
    IF i > Len(NameOrder) THEN <<>>
    ELSE repeat(NameOrder[i], live[NameOrder[i]]) \o sortedFrom(live, i + 1)

\* Variant: no sorted(): the names come in the order the objects are found,
\* here one object of each type in turn.
RECURSIVE unsortedFrom(_)
unsortedFrom(live) ==
    LET left == {t \in TypeNames : live[t] > 0}
        round == sortedFrom([t \in TypeNames |-> IF t \in left THEN 1 ELSE 0], 1)
    IN  IF left = {} THEN <<>>
        ELSE round \o unsortedFrom([t \in TypeNames |->
                                        IF t \in left THEN live[t] - 1 ELSE 0])

sortedObjectTypes_unsorted(live) == unsortedFrom(live)

sortedObjectTypes(live) == sortedFrom(live, 1)

\* itertools.groupby on a sorted list: maximal runs of equal names.
RECURSIVE groupby(_)
groupby(s) ==
    IF s = <<>> THEN <<>>
    ELSE LET n == CHOOSE m \in 1..Len(s) :
                      /\ \A i \in 1..m : s[i] = s[1]
                      /\ (m = Len(s) \/ s[m + 1] # s[1])
         IN  <<[key |-> s[1], objects |-> SubSeq(s, 1, n)]>>
               \o groupby(SubSeq(s, n + 1, Len(s)))

\* set(sortedObjectTypes)
objectTypeSet(live) ==
    LET s == sortedObjectTypes(live) IN {s[i] : i \in 1..Len(s)}

(* ---------------------------------------------------------- updateStats *)
\* Variant: a new history is not prefilled.
putGroup_noPrefill(h, ts, size, g) ==
    LET hist == IF g.key \in DOMAIN h THEN h[g.key] ELSE RingBuffer_init(size)
        new == RingBuffer_append(hist, count(g.objects))
    IN  [k \in DOMAIN h \cup {g.key} |-> IF k = g.key THEN new ELSE h[k]]

\* Variant: a new history is prefilled with the group's count, not with 0.
putGroup_prefillCount(h, ts, size, g) ==
    LET hist == IF g.key \in DOMAIN h
                THEN h[g.key]
                ELSE RingBuffer_extend(RingBuffer_init(size),
                                       repeat(count(g.objects), RingBuffer_len(ts)))
        new == RingBuffer_append(hist, count(g.objects))
    IN  [k \in DOMAIN h \cup {g.key} |-> IF k = g.key THEN new ELSE h[k]]

\* One iteration of the first loop: history lookup, creation with zero
\* prefill, append of the group's count.
putGroup(h, ts, size, g) ==
    LET hist == IF g.key \in DOMAIN h
                THEN h[g.key]
                ELSE RingBuffer_extend(RingBuffer_init(size),
                                       repeat(0, RingBuffer_len(ts)))
        new == RingBuffer_append(hist, count(g.objects))
    IN  [k \in DOMAIN h \cup {g.key} |-> IF k = g.key THEN new ELSE h[k]]

\* The first loop over the first n groups.
RECURSIVE putCounts(_, _, _, _, _)
putCounts(h, ts, size, groups, n) ==
    IF n = 0 THEN h
    ELSE putGroup(putCounts(h, ts, size, groups, n - 1), ts, size, groups[n])

\* all(s == 0 for s in samples)
allZero(samples) ==
    \A i \in 1..RingBuffer_len(samples) : RingBuffer_iter(samples)[i] = 0

\* Variant: nothing is appended for a type that is no longer found.
zeroIfAbsent_skip(samples, typeName, present) == samples

\* Variant: every tracked type gets a 0, counted in this tick or not.
zeroIfAbsent_always(samples, typeName, present) == RingBuffer_append(samples, 0)

\* Second loop, first statement: a tracked type without live objects gets a 0.
zeroIfAbsent(samples, typeName, present) ==
    IF typeName \notin present THEN RingBuffer_append(samples, 0) ELSE samples

\* Variant: a type is popped as soon as its newest sample is 0.
pruned_newestZero(h) ==
    {k \in DOMAIN h : RingBuffer_len(h[k]) = 0
                        \/ RingBuffer_iter(h[k])[RingBuffer_len(h[k])] = 0}

\* Variant: nothing is ever popped.
pruned_never(h) == {}

\* Second loop, second statement: which keys are popped.
pruned(h) == {k \in DOMAIN h : allZero(h[k])}

\* The whole second loop over history.items().
zeroAndPrune(h, present) ==
    LET h2 == [k \in DOMAIN h |-> zeroIfAbsent(h[k], k, present)]
    IN  [k \in DOMAIN h \ pruned(h2) |-> h2[k]]

\* The assert at the end of updateStats.
sanityCheck(h, ts) ==
    \A k \in DOMAIN h : RingBuffer_len(h[k]) = RingBuffer_len(ts)

\* Where a call of updateStats may raise before it ends:
\*   NoFailure      it runs to its assert;
\*   CensusFailure  the object enumeration raises (before any store access);
\*   i \in 1..n+1   the i-th iteration of the first loop (n+1: the statement
\*                  after the loop) raises MemoryError on an allocation.
\* self.debug('Updating object stats'): the lambda inherited from the class
\* is bound to the instance and returns None, and so does the bound msg after
\* logging. LoggedServiceMixin.debug read from the class is an unbound method
\* (Python 2): stored on the instance it is called with the message as its
\* first argument and raises TypeError.
debugRaises == debug = "unbound"

NoFailure == [kind |-> "none"]
CensusFailure == [kind |-> "census"]
MergeFailure(i) == [kind |-> "merge", at |-> i]

\* Variant: the timestamp is recorded first, before the objects are
\* enumerated.
updateStats_stampFirst(h, ts, size, live, failAt, now) ==
    LET groups == groupby(sortedObjectTypes(live))
        stamped == IF ts = None THEN ts ELSE Some(RingBuffer_append(Val(ts), now))
        h1     == putCounts(Val(h), Val(ts), size, groups, Len(groups))
        h3     == zeroAndPrune(h1, objectTypeSet(live))
    IN  IF debugRaises
        THEN [history |-> h, timestamps |-> ts, exc |-> "TypeError"]
        ELSE IF failAt.kind = "census"
        THEN [history |-> h, timestamps |-> stamped, exc |-> "CensusError"]
        ELSE IF h = None \/ ts = None
        THEN [history |-> h, timestamps |-> ts, exc |-> "AttributeError"]
        ELSE [history |-> Some(h3), timestamps |-> stamped,
              exc |-> IF sanityCheck(h3, Val(stamped)) THEN "none"
                      ELSE "AssertionError"]

\* updateStats on store (h, ts): the new store and the exception raised.
updateStats(h, ts, size, live, failAt, now) ==
    LET groups == groupby(sortedObjectTypes(live))
        done   == IF failAt.kind = "merge" THEN failAt.at - 1 ELSE Len(groups)
        h1     == putCounts(Val(h), Val(ts), size, groups, done)
        h3     == zeroAndPrune(h1, objectTypeSet(live))
        ts1    == RingBuffer_append(Val(ts), now)
    IN  IF debugRaises
        THEN [history |-> h, timestamps |-> ts, exc |-> "TypeError"]
        ELSE IF failAt.kind = "census"
        THEN [history |-> h, timestamps |-> ts, exc |-> "CensusError"]
        ELSE IF h = None \/ ts = None
        THEN [history |-> h, timestamps |-> ts, exc |-> "AttributeError"]
        ELSE IF failAt.kind = "merge"
        THEN [history |-> Some(h1), timestamps |-> ts, exc |-> "MemoryError"]
        ELSE [history |-> Some(h3), timestamps |-> Some(ts1),
              exc |-> IF sanityCheck(h3, ts1) THEN "none" ELSE "AssertionError"]

\* Variant: no except clause, the exception propagates to the caller.
safeCall_propagates(result) ==
    [history |-> result.history, timestamps |-> result.timestamps,
     reported |-> "none", errCalls |-> <<>>, exc |-> result.exc]

\* Variant: an AssertionError is re-raised, every other Exception is
\* handed to err.
safeCall_assertFatal(result) ==
    [history |-> result.history, timestamps |-> result.timestamps,
     reported |-> IF result.exc = "AssertionError" THEN "none" ELSE result.exc,
     errCalls |-> IF result.exc \in {"none", "AssertionError"}
                  THEN <<>> ELSE <<result.exc>>,
     exc |-> IF result.exc = "AssertionError" THEN result.exc ELSE "none"]

\* Variant: err is also called when fun returns.
safeCall_errAlways(result) ==
    [history |-> result.history, timestamps |-> result.timestamps,
     reported |-> result.exc, errCalls |-> <<result.exc>>, exc |-> "none"]

\* Variant: err is called in the except clause and once more after it.
safeCall_errTwice(result) ==
    [history |-> result.history, timestamps |-> result.timestamps,
     reported |-> result.exc,
     errCalls |-> IF result.exc = "none" THEN <<>>
                  ELSE <<result.exc, result.exc>>,
     exc |-> "none"]

\* safeCall(fun, err): every Exception is handed to err, nothing propagates.
safeCall(result) ==
    [history |-> result.history, timestamps |-> result.timestamps,
     reported |-> result.exc,
     errCalls |-> IF result.exc = "none" THEN <<>> ELSE <<result.exc>>,
     exc |-> "none"]

\* LoopingCall.__call__: an exception out of the called function stops the loop.
loopAfterCall(result) == result.exc = "none"

(* -------------------------------------------------------------- inputs *)
Heaps == [TypeNames -> 0..MaxCount]

Census(live) == [k \in {t \in TypeNames : live[t] > 0} |-> live[k]]

\* What one call of updateStats meets: the live objects and where it raises.
\* A failing enumeration yields no census, whatever the heap holds.
EmptyHeap == [t \in TypeNames |-> 0]
CensusInputs ==
    {[live |-> l, failAt |-> NoFailure] : l \in Heaps}
        \cup {[live |-> EmptyHeap, failAt |-> CensusFailure]}

\* The merge failures possible for a census: one per iteration of the first
\* loop, and one after it.
MergeFailures(live) ==
    {MergeFailure(i) : i \in 1..(Len(groupby(sortedObjectTypes(live))) + 1)}

\* The observer keeps the censuses of the last sampleHistorySize + 1
\* successful ticks on the current store, oldest first: the window of the
\* store and the one census that has just left it.
logAppend(log, size, census) ==
    LET l == Append(log, census)
    IN  IF Len(l) > size + 1 THEN Tail(l) ELSE l

(* ------------------------------------------------------------- actions *)
\* What the observer notes of a call of updateStats: "ok" or the exception.
outcome(u) == IF u.exc = "none" THEN "ok" ELSE u.exc

\* The handler invoked and the exception it let out ("none": it returned).
Called(op, raised) == [op |-> op, raised |-> raised]

\* What a reference to the service's dict and timestamp buffer shows.
StoreView(h, ts) == [history |-> h, timestamps |-> ts]

\* updateStats changes the dict and the buffers in place: whoever holds a
\* reference to them sees the change.
heldAfterUpdate(h, ts) ==
    IF readerLive THEN Some(StoreView(h, ts)) ELSE readerHeld

\* One firing of the LoopingCall: safeCall(self.updateStats, err).
Fire(live, failAt) ==
    LET u == updateStats(history, timestamps, sampleHistorySize, live, failAt,
                         clock)
        r == safeCall(u)
    IN  /\ history' = r.history
        /\ timestamps' = r.timestamps
        /\ lastTick' = outcome(u)
        /\ errs' = r.errCalls
        /\ loopRunning' = loopAfterCall(r)
        /\ clock' = clock + 1
        /\ censusLog' = IF u.exc = "none"
                        THEN logAppend(censusLog, sampleHistorySize, Census(live))
                        ELSE censusLog
        /\ called' = Called("loop", r.exc)
        /\ readerHeld' = heldAfterUpdate(r.history, r.timestamps)

Tick(live, failAt, until) ==
    /\ loopRunning
    /\ clock < until
    /\ Fire(live, failAt)
    /\ UNCHANGED <<sampleHistorySize, running, ringVars, debug, debugLog, request, startIssued, inFlight, readerSeen, readerLive>>

\* startService with a non-positive size: the dict is installed, then
\* RingBuffer(size) raises.
StartBadSize ==
    /\ RingBuffer_init_raises(sampleHistorySize)
    /\ history' = Some(<<>>)
    /\ censusLog' = <<>>
    /\ called' = Called("startService", "AssertionError")
    /\ readerLive' = FALSE
    /\ startIssued' = TRUE
    /\ UNCHANGED <<sampleHistorySize, timestamps, loopRunning, running, clock,
                   lastTick, errs, ringVars, debug, debugLog, request, inFlight, readerSeen, readerHeld>>

\* Variant: LoopingCall.start without its assert: a second schedule is
\* started and makes its first call at once.
StartWhileRunning_accepted ==
    /\ ~RingBuffer_init_raises(sampleHistorySize)
    /\ loopRunning
    /\ clock < MaxClock
    /\ \E in \in CensusInputs :
           LET u == updateStats(Some(<<>>), Some(RingBuffer_init(sampleHistorySize)),
                                sampleHistorySize, in.live, in.failAt, clock)
               r == safeCall(u)
           IN  /\ history' = r.history
               /\ timestamps' = r.timestamps
               /\ lastTick' = outcome(u)
               /\ errs' = r.errCalls
               /\ censusLog' = IF u.exc = "none" THEN <<Census(in.live)>> ELSE <<>>
    /\ clock' = clock + 1
    /\ running' = TRUE
    /\ called' = Called("startService", "none")
    /\ readerLive' = FALSE
    /\ startIssued' = TRUE
    /\ UNCHANGED <<sampleHistorySize, loopRunning, ringVars, debug, debugLog, request, inFlight, readerSeen,
                   readerHeld>>

\* startService while the loop is running: the store is replaced, then
\* LoopingCall.start raises on its assert.
StartWhileRunning ==
    /\ ~RingBuffer_init_raises(sampleHistorySize)
    /\ loopRunning
    /\ history' = Some(<<>>)
    /\ timestamps' = Some(RingBuffer_init(sampleHistorySize))
    /\ censusLog' = <<>>
    /\ called' = Called("startService", "AssertionError")
    /\ readerLive' = FALSE
    /\ startIssued' = TRUE
    /\ UNCHANGED <<sampleHistorySize, loopRunning, running, clock, lastTick, errs,
                   ringVars, debug, debugLog, request, inFlight, readerSeen, readerHeld>>

\* Variant: startService without its two assignments: the loop is started on
\* whatever the attributes hold.
StartFresh_noReset(live, failAt, until) ==
    /\ ~RingBuffer_init_raises(sampleHistorySize)
    /\ ~loopRunning
    /\ clock < until
    /\ LET u == updateStats(history, timestamps, sampleHistorySize, live, failAt,
                            clock)
           r == safeCall(u)
       IN  /\ history' = r.history
           /\ timestamps' = r.timestamps
           /\ lastTick' = outcome(u)
           /\ errs' = r.errCalls
           /\ loopRunning' = loopAfterCall(r)
           /\ censusLog' = IF u.exc = "none" THEN <<Census(live)>> ELSE <<>>
           /\ readerHeld' = heldAfterUpdate(r.history, r.timestamps)
    /\ clock' = clock + 1
    /\ running' = TRUE
    /\ called' = Called("startService", "none")
    /\ startIssued' = TRUE
    /\ UNCHANGED <<sampleHistorySize, ringVars, debug, debugLog, request, inFlight, readerSeen, readerLive>>

\* startService from a stopped loop: fresh store, loop.start runs the first
\* call at once (now=True), Service.startService sets running.
StartFresh(live, failAt, until) ==
    /\ ~RingBuffer_init_raises(sampleHistorySize)
    /\ ~loopRunning
    /\ clock < until
    /\ LET u == updateStats(Some(<<>>), Some(RingBuffer_init(sampleHistorySize)),
                            sampleHistorySize, live, failAt, clock)
           r == safeCall(u)
       IN  /\ history' = r.history
           /\ timestamps' = r.timestamps
           /\ lastTick' = outcome(u)
           /\ errs' = r.errCalls
           /\ loopRunning' = loopAfterCall(r)
           /\ censusLog' = IF u.exc = "none" THEN <<Census(live)>> ELSE <<>>
    /\ clock' = clock + 1
    /\ running' = TRUE
    /\ called' = Called("startService", "none")
    /\ readerLive' = FALSE
    /\ startIssued' = TRUE
    /\ UNCHANGED <<sampleHistorySize, ringVars, debug, debugLog, request, inFlight, readerSeen, readerHeld>>

startService(until) ==
    \/ StartBadSize
    \/ StartWhileRunning
    \/ \E in \in CensusInputs : StartFresh(in.live, in.failAt, until)

\* Variant: stopService without loop.stop(): the store is dropped, the loop
\* goes on.
StopRunning_keepLoop ==
    /\ loopRunning
    /\ history' = None
    /\ timestamps' = None
    /\ running' = FALSE
    /\ censusLog' = <<>>
    /\ called' = Called("stopService", "none")
    /\ readerLive' = FALSE
    /\ startIssued' = FALSE
    /\ UNCHANGED <<sampleHistorySize, loopRunning, clock, lastTick, errs, ringVars, debug, debugLog, request, inFlight,
                   readerSeen, readerHeld>>

\* stopService: loop.stop() asserts that the loop runs, then the store is dropped.
StopRunning ==
    /\ loopRunning
    /\ loopRunning' = FALSE
    /\ history' = None
    /\ timestamps' = None
    /\ running' = FALSE
    /\ censusLog' = <<>>
    /\ called' = Called("stopService", "none")
    /\ readerLive' = FALSE
    /\ startIssued' = FALSE
    /\ UNCHANGED <<sampleHistorySize, clock, lastTick, errs, ringVars, debug, debugLog, request, inFlight, readerSeen,
                   readerHeld>>

StopNotRunning ==
    /\ ~loopRunning
    /\ called' = Called("stopService", "AssertionError")
    /\ UNCHANGED <<sampleHistorySize, history, timestamps, loopRunning, running,
                   clock, lastTick, errs, censusLog, ringVars, debug, debugLog, request, startIssued, inFlight, readerVars>>

stopService ==
    \/ StopRunning
    \/ StopNotRunning

(* ------------------------------------------------------- specification *)
Init ==
    /\ sampleHistorySize \in 0..MaxC
    /\ history = None
    /\ timestamps = None
    /\ loopRunning = FALSE
    /\ running = FALSE
    /\ clock = 0
    /\ lastTick = "none"
    /\ censusLog = <<>>
    /\ rb = RingBuffer_init(1)
    /\ rbLog = <<>>
    /\ rbExtended = FALSE
    /\ called = Called("none", "none")
    /\ readerSeen = None
    /\ readerHeld = None
    /\ readerLive = FALSE
    /\ inFlight = <<>>
    /\ errs = <<>>
    /\ request = None
    /\ startIssued = FALSE
    /\ debug = "inherited"
    /\ debugLog = <<>>

\* The reactor fires the loop's call.
LoopFires(until) == \E in \in CensusInputs : Tick(in.live, in.failAt, until)

Next ==
    \/ startService(MaxClock)
    \/ stopService
    \/ LoopFires(MaxClock)

Spec == Init /\ [][Next]_vars

(* ------------------------------------------- runs with failing merges *)
\* An allocation inside the first loop of updateStats (a new RingBuffer, a
\* deque node) or right after it (the set of names) can raise MemoryError,
\* an Exception like any other: safeCall reports it and the store keeps what
\* the loop had done so far.
MergeFaultInputs ==
    UNION {{[live |-> l, failAt |-> f] : f \in MergeFailures(l)} : l \in Heaps}

StartFaults ==
    \E in \in MergeFaultInputs : StartFresh(in.live, in.failAt, MaxFaultClock)

LoopFaults ==
    \E in \in MergeFaultInputs : Tick(in.live, in.failAt, MaxFaultClock)

\* Any firing of the loop's call, whatever its outcome.
LoopCall == LoopFires(MaxFaultClock) \/ LoopFaults

NextFault ==
    \/ startService(MaxFaultClock)
    \/ stopService
    \/ LoopFires(MaxFaultClock)
    \/ StartFaults
    \/ LoopFaults

\* The reactor keeps calling a running LoopingCall: weak fairness of the call.
FaultSpec == Init /\ [][NextFault]_vars /\ WF_vars(LoopCall)

(* ------------------------------------------------ RingBuffer-only runs *)
RingValues == 0..MaxCount

\* The arguments of extend: every sequence of at most MaxExtend values.
ExtendArgs == UNION {[1..n -> RingValues] : n \in 0..MaxExtend}

RingAppend(x) ==
    /\ Len(rbLog) < MaxLog
    /\ rb' = RingBuffer_append(rb, x)
    /\ rbLog' = Append(rbLog, x)
    /\ UNCHANGED <<rbExtended, samplerVars, readerVars>>

RingExtend(xs) ==
    /\ Len(rbLog) + Len(xs) <= MaxLog
    /\ rb' = RingBuffer_extend(rb, xs)
    /\ rbLog' = rbLog \o xs
    /\ rbExtended' = TRUE
    /\ UNCHANGED <<samplerVars, readerVars>>

RingInit ==
    /\ sampleHistorySize \in 1..MaxC
    /\ history = None
    /\ timestamps = None
    /\ loopRunning = FALSE
    /\ running = FALSE
    /\ clock = 0
    /\ lastTick = "none"
    /\ censusLog = <<>>
    /\ rb = RingBuffer_init(sampleHistorySize)
    /\ rbLog = <<>>
    /\ rbExtended = FALSE
    /\ called = Called("none", "none")
    /\ readerSeen = None
    /\ readerHeld = None
    /\ readerLive = FALSE
    /\ inFlight = <<>>
    /\ errs = <<>>
    /\ request = None
    /\ startIssued = FALSE
    /\ debug = "inherited"
    /\ debugLog = <<>>

RingNext ==
    \/ \E x \in RingValues : RingAppend(x)
    \/ \E xs \in ExtendArgs : RingExtend(xs)

RingSpec == RingInit /\ [][RingNext]_vars

(* ---------------------------------------------------- runs with a reader *)
\* min(samples), max(samples) of a non-empty sequence.
seqMin(q) == CHOOSE x \in {q[i] : i \in 1..Len(q)} : \A j \in 1..Len(q) : x <= q[j]
seqMax(q) == CHOOSE x \in {q[i] : i \in 1..Len(q)} : \A j \in 1..Len(q) : x >= q[j]

\* The chart data of one type: a copy of the samples followed by `pad`
\* times None when the history is shorter than sampleHistorySize, the
\* samples themselves otherwise.
chartData(samples, size) ==
    [values |-> RingBuffer_iter(samples),
     pad    |-> IF RingBuffer_len(samples) < size
                THEN size - RingBuffer_len(samples) ELSE 0]

\* max() and min() raise ValueError on an empty history.
genContent_raises(h) == \E k \in DOMAIN h : RingBuffer_len(h[k]) = 0

\* genContent of render_GET: per tracked type the chart range and data and
\* the min / max / current line.
genContent(h, size) ==
    [k \in DOMAIN h |->
        [range   |-> <<0, ((seqMax(RingBuffer_iter(h[k])) \div 10) + 1) * 10>>,
         data    |-> chartData(h[k], size),
         min     |-> seqMin(RingBuffer_iter(h[k])),
         max     |-> seqMax(RingBuffer_iter(h[k])),
         current |-> RingBuffer_iter(h[k])[RingBuffer_len(h[k])]]]

\* The history and timestamps properties: the caller is handed the very
\* objects the service holds (attrgetter), not copies.
ReadHistory ==
    /\ readerSeen' = Some(StoreView(history, timestamps))
    /\ readerHeld' = Some(StoreView(history, timestamps))
    /\ readerLive' = TRUE
    /\ called' = Called("history", "none")
    /\ UNCHANGED <<sampleHistorySize, history, timestamps, loopRunning, running,
                   clock, lastTick, errs, censusLog, ringVars, debug, debugLog, request, startIssued, inFlight>>

\* Variant: data = samples without list(): the padding (None, written -1)
\* is appended to the history itself.
render_GET_padInPlace ==
    /\ history # None
    /\ ~genContent_raises(Val(history))
    /\ called' = Called("render_GET", "none")
    /\ readerSeen' = Some([page |-> genContent(Val(history), sampleHistorySize)])
    /\ readerHeld' = readerSeen'
    /\ readerLive' = FALSE
    /\ history' = Some([k \in DOMAIN Val(history) |->
                        RingBuffer_extend(Val(history)[k],
                            repeat(-1, chartData(Val(history)[k],
                                                 sampleHistorySize).pad))])
    /\ UNCHANGED <<sampleHistorySize, timestamps, loopRunning, running,
                   clock, lastTick, errs, censusLog, ringVars, debug, debugLog, request, startIssued, inFlight>>

\* render_GET: the page is built from self.history in one go and returned as
\* a string; without a dict, None.iteritems raises AttributeError.
render_GET ==
    /\ IF history = None
       THEN /\ called' = Called("render_GET", "AttributeError")
            /\ UNCHANGED readerVars
       ELSE IF genContent_raises(Val(history))
       THEN /\ called' = Called("render_GET", "ValueError")
            /\ UNCHANGED readerVars
       ELSE /\ called' = Called("render_GET", "none")
            /\ readerSeen' = Some([page |-> genContent(Val(history),
                                                       sampleHistorySize)])
            /\ readerHeld' = readerSeen'
            /\ readerLive' = FALSE
    /\ UNCHANGED <<sampleHistorySize, history, timestamps, loopRunning, running,
                   clock, lastTick, errs, censusLog, ringVars, debug, debugLog, request, startIssued, inFlight>>

\* GraphResource.getChild: the membership test on the live dict; without a
\* dict, None.iterkeys raises AttributeError. An accepted name makes the
\* site render the graph resource next; any other name gets the "no such
\* child" resource of resource.Resource.getChild.
GraphResource_getChild(name) ==
    /\ request = None
    /\ IF history = None
       THEN /\ called' = Called("GraphResource.getChild", "AttributeError")
            /\ UNCHANGED <<readerVars, request>>
       ELSE IF name \in DOMAIN Val(history)
       THEN /\ called' = Called("GraphResource.getChild", "none")
            /\ request' = Some(name)
            /\ UNCHANGED readerVars
       ELSE /\ called' = Called("GraphResource.getChild", "none")
            /\ readerSeen' = Some([noResource |-> name])
            /\ readerHeld' = readerSeen'
            /\ readerLive' = FALSE
            /\ UNCHANGED request
    /\ UNCHANGED <<sampleHistorySize, history, timestamps, loopRunning, running,
                   clock, lastTick, errs, censusLog, ringVars, debug, debugLog, startIssued,
                   inFlight>>

\* The chart GraphResource.render_GET redirects to: the range computed from
\* the largest sample, and the samples as they are.
graphChart(samples) ==
    [range |-> <<0, ((seqMax(RingBuffer_iter(samples)) \div 10) + 1) * 10>>,
     data  |-> RingBuffer_iter(samples)]

\* GraphResource.render_GET for the last path segment typeName: the lookup
\* self.objectBrowser.history[typeName] raises TypeError without a dict and
\* KeyError for a name that is not a key, and max raises ValueError on an
\* empty list.
GraphResource_render_GET(typeName) ==
    /\ IF history = None
       THEN /\ called' = Called("GraphResource.render_GET", "TypeError")
            /\ UNCHANGED readerVars
       ELSE IF typeName \notin DOMAIN Val(history)
       THEN /\ called' = Called("GraphResource.render_GET", "KeyError")
            /\ UNCHANGED readerVars
       ELSE IF RingBuffer_len(Val(history)[typeName]) = 0
       THEN /\ called' = Called("GraphResource.render_GET", "ValueError")
            /\ UNCHANGED readerVars
       ELSE /\ called' = Called("GraphResource.render_GET", "none")
            /\ readerSeen' = Some([chart |-> graphChart(Val(history)[typeName])])
            /\ readerHeld' = readerSeen'
            /\ readerLive' = FALSE
    /\ request' = None
    /\ UNCHANGED <<sampleHistorySize, history, timestamps, loopRunning, running,
                   clock, lastTick, errs, censusLog, ringVars, debug, debugLog, startIssued,
                   inFlight>>

\* The second half of a graph request: the resource getChild returned is
\* rendered, with the accepted name as the last path segment.
GraphRequestRender ==
    /\ request # None
    /\ GraphResource_render_GET(Val(request))

\* A request for the graph resource itself: the last path segment is the
\* segment the resource is registered under, which is no type name.
GraphRootSegment == "graphs"

GraphRootRender ==
    /\ request = None
    /\ GraphResource_render_GET(GraphRootSegment)

NextRead ==
    \/ startService(MaxReadClock)
    \/ stopService
    \/ LoopFires(MaxReadClock)
    \/ ReadHistory
    \/ render_GET

ReadSpec == Init /\ [][NextRead]_vars

(* ------------------------------- runs that follow updateStats step by step *)
\* The reactor thread takes the next event (a timer, a request, a call of
\* startService or stopService) only when the handler it runs has returned;
\* updateStats is a plain method without a yield, a Deferred or a thread.
\* Variant: events are taken at any time.
reactorFree_always == TRUE

reactorFree == inFlight = <<>> /\ request = None

\* A call of updateStats under way: the objects it found, the number of
\* groups its first loop has merged, whether its second loop is done, and
\* whether it is the first call, made from within startService.
Frame(live, first) ==
    [live |-> live, done |-> 0, phase |-> "merge", first |-> first]

Top == inFlight[Len(inFlight)]
replaceTop(frame) == [inFlight EXCEPT ![Len(inFlight)] = frame]
popTop == SubSeq(inFlight, 1, Len(inFlight) - 1)
TopGroups == groupby(sortedObjectTypes(Top.live))

\* The call under way returns or raises: safeCall reports, the loop goes
\* on, and a startService that made the call goes on to Service.startService.
returnFromCall(exc) ==
    LET r == safeCall([history |-> history', timestamps |-> timestamps',
                       exc |-> exc])
    IN  /\ inFlight' = popTop
        /\ lastTick' = IF exc = "none" THEN "ok" ELSE exc
        /\ errs' = r.errCalls
        /\ loopRunning' = (loopRunning /\ loopAfterCall(r))
        /\ clock' = clock + 1
        /\ running' = (IF Top.first THEN TRUE ELSE running)
        /\ called' = Called(IF Top.first THEN "startService" ELSE "loop", r.exc)
        /\ censusLog' = IF exc = "none"
                        THEN logAppend(censusLog, sampleHistorySize,
                                       Census(Top.live))
                        ELSE censusLog

\* A statement of updateStats finds no store: self.history is None.
noStoreInCall ==
    /\ UNCHANGED <<history, timestamps, readerHeld>>
    /\ returnFromCall("AttributeError")

\* startService from a stopped loop, up to the point where the first call
\* of updateStats has enumerated the objects.
StepStart(live) ==
    /\ reactorFree
    /\ ~debugRaises
    /\ ~RingBuffer_init_raises(sampleHistorySize)
    /\ ~loopRunning
    /\ clock < MaxStepClock
    /\ history' = Some(<<>>)
    /\ timestamps' = Some(RingBuffer_init(sampleHistorySize))
    /\ loopRunning' = TRUE
    /\ censusLog' = <<>>
    /\ readerLive' = FALSE
    /\ inFlight' = Append(inFlight, Frame(live, TRUE))
    /\ startIssued' = TRUE
    /\ UNCHANGED <<sampleHistorySize, running, clock, lastTick, errs, called, ringVars, debug, debugLog, request,
                   readerSeen, readerHeld>>

\* Variant: the timestamp is recorded as soon as the call begins (and again
\* at its end).
StepBegin_stamps(live) ==
    /\ reactorFree
    /\ ~debugRaises
    /\ loopRunning
    /\ clock < MaxStepClock
    /\ inFlight' = Append(inFlight, Frame(live, FALSE))
    /\ timestamps' = Some(RingBuffer_append(Val(timestamps), clock))
    /\ readerHeld' = heldAfterUpdate(history, timestamps')
    /\ UNCHANGED <<sampleHistorySize, history, loopRunning, running,
                   clock, lastTick, errs, censusLog, called, ringVars, debug, debugLog, request, startIssued, readerSeen,
                   readerLive>>

\* The loop fires: updateStats enumerates the objects.
StepBegin(live) ==
    /\ reactorFree
    /\ ~debugRaises
    /\ loopRunning
    /\ clock < MaxStepClock
    /\ inFlight' = Append(inFlight, Frame(live, FALSE))
    /\ UNCHANGED <<sampleHistorySize, history, timestamps, loopRunning, running,
                   clock, lastTick, errs, censusLog, called, ringVars, debug, debugLog, request, startIssued, readerVars>>

\* Variant: one zero more than there are timestamps.
prefilled_oneMore(ts, size) ==
    RingBuffer_extend(RingBuffer_init(size), repeat(0, RingBuffer_len(ts) + 1))

\* A new history: RingBuffer(sampleHistorySize) extended by one zero per
\* timestamp.
prefilled(ts, size) ==
    RingBuffer_extend(RingBuffer_init(size), repeat(0, RingBuffer_len(ts)))

\* The key of the group the first loop is at.
TopKey == TopGroups[Top.done + 1].key

\* One iteration of the first loop, for a type not tracked yet, up to the
\* append of its count: the history is created, stored and zero-filled.
StepCreate ==
    /\ inFlight # <<>>
    /\ Top.phase = "merge"
    /\ Top.done < Len(TopGroups)
    /\ StorePresent
    /\ TopKey \notin DOMAIN Val(history)
    /\ history' = Some([k \in DOMAIN Val(history) \cup {TopKey} |->
                            IF k = TopKey
                            THEN prefilled(Val(timestamps), sampleHistorySize)
                            ELSE Val(history)[k]])
    /\ readerHeld' = heldAfterUpdate(history', timestamps)
    /\ UNCHANGED <<sampleHistorySize, timestamps, loopRunning, running, clock,
                   lastTick, errs, censusLog, called, inFlight, ringVars, debug, debugLog, request, startIssued, readerSeen,
                   readerLive>>

\* One iteration of the first loop (the rest of it, for a type that
\* StepCreate has just created).
StepMerge ==
    /\ inFlight # <<>>
    /\ Top.phase = "merge"
    /\ Top.done < Len(TopGroups)
    /\ StorePresent => TopKey \in DOMAIN Val(history)
    /\ IF ~StorePresent THEN noStoreInCall
       ELSE /\ history' = Some(putGroup(Val(history), Val(timestamps),
                                        sampleHistorySize,
                                        TopGroups[Top.done + 1]))
            /\ readerHeld' = heldAfterUpdate(history', timestamps)
            /\ inFlight' = replaceTop([Top EXCEPT !.done = @ + 1])
            /\ UNCHANGED <<timestamps, loopRunning, running, clock, lastTick, errs,
                           censusLog, called>>
    /\ UNCHANGED <<sampleHistorySize, ringVars, debug, debugLog, request, startIssued, readerSeen, readerLive>>

\* The second loop.
StepPrune ==
    /\ inFlight # <<>>
    /\ Top.phase = "merge"
    /\ Top.done = Len(TopGroups)
    /\ IF ~StorePresent THEN noStoreInCall
       ELSE /\ history' = Some(zeroAndPrune(Val(history),
                                            objectTypeSet(Top.live)))
            /\ readerHeld' = heldAfterUpdate(history', timestamps)
            /\ inFlight' = replaceTop([Top EXCEPT !.phase = "stamp"])
            /\ UNCHANGED <<timestamps, loopRunning, running, clock, lastTick, errs,
                           censusLog, called>>
    /\ UNCHANGED <<sampleHistorySize, ringVars, debug, debugLog, request, startIssued, readerSeen, readerLive>>

\* The timestamp, the assert, and the return to safeCall and the loop.
StepEnd ==
    /\ inFlight # <<>>
    /\ Top.phase = "stamp"
    /\ IF ~StorePresent THEN noStoreInCall
       ELSE /\ timestamps' = Some(RingBuffer_append(Val(timestamps), clock))
            /\ history' = history
            /\ readerHeld' = heldAfterUpdate(history, timestamps')
            /\ returnFromCall(IF sanityCheck(Val(history), Val(timestamps'))
                              THEN "none" ELSE "AssertionError")
    /\ UNCHANGED <<sampleHistorySize, ringVars, debug, debugLog, request, startIssued, readerSeen, readerLive>>

NextStep ==
    \/ \E l \in Heaps : StepStart(l)
    \/ \E l \in Heaps : StepBegin(l)
    \/ StepCreate
    \/ StepMerge
    \/ StepPrune
    \/ StepEnd
    \/ reactorFree /\ StartFresh(EmptyHeap, CensusFailure, MaxStepClock)
    \/ reactorFree /\ Tick(EmptyHeap, CensusFailure, MaxStepClock)
    \/ reactorFree /\ StartBadSize
    \/ reactorFree /\ StartWhileRunning
    \/ reactorFree /\ stopService
    \/ reactorFree /\ ReadHistory
    \/ reactorFree /\ render_GET
    \/ \E name \in TypeNames : reactorFree /\ GraphResource_getChild(name)
    \/ GraphRequestRender
    \/ reactorFree /\ GraphRootRender

StepSpec == Init /\ [][NextStep]_vars

(* -------------------------------------------- runs with larger censuses *)
BigHeaps == [TypeNames -> 0..MaxGroupCount]

NextGroup ==
    \/ \E l \in BigHeaps : StartFresh(l, NoFailure, MaxGroupClock)
    \/ \E l \in BigHeaps : Tick(l, NoFailure, MaxGroupClock)
    \/ StopRunning

GroupSpec == Init /\ [][NextGroup]_vars

(* ------------------------------------------- runs that toggle debugging *)
\* The observer keeps the last two toggles.
toggled(log, op) ==
    LET l == Append(log, op)
    IN  IF Len(l) > 2 THEN Tail(l) ELSE l

\* enableDebug: self.debug = self.msg, the bound method.
enableDebug ==
    /\ debug' = "msg"
    /\ debugLog' = toggled(debugLog, "enableDebug")
    /\ called' = Called("enableDebug", "none")
    /\ UNCHANGED <<sampleHistorySize, history, timestamps, loopRunning, running,
                   clock, lastTick, errs, censusLog, ringVars, request,
                   startIssued, inFlight, readerVars>>

\* disableDebug: self.debug = LoggedServiceMixin.debug, the attribute read
\* from the class and stored on the instance.
disableDebug ==
    /\ debug' = "unbound"
    /\ debugLog' = toggled(debugLog, "disableDebug")
    /\ called' = Called("disableDebug", "none")
    /\ UNCHANGED <<sampleHistorySize, history, timestamps, loopRunning, running,
                   clock, lastTick, errs, censusLog, ringVars, request,
                   startIssued, inFlight, readerVars>>

NextDebug ==
    \/ \E l \in Heaps : StartFresh(l, NoFailure, MaxDebugClock)
    \/ \E l \in Heaps : Tick(l, NoFailure, MaxDebugClock)
    \/ StopRunning
    \/ enableDebug
    \/ disableDebug

DebugSpec == Init /\ [][NextDebug]_vars

(* ------------------------------------------------ vocabulary of the claims *)
\* The dict of histories and the timestamp buffer of a present store.
H == Val(history)
TS == Val(timestamps)
Tracked == DOMAIN H
Samples(k) == RingBuffer_iter(H[k])
numSamples == RingBuffer_len(TS)

Zeros(n) == [i \in 1..n |-> 0]

\* The newest n elements of s.
LastN(s, n) == IF Len(s) <= n THEN s ELSE SubSeq(s, Len(s) - n + 1, Len(s))

HasNonZero(s) == \E i \in 1..Len(s) : s[i] # 0

\* The count a census reports for a type, absence read as 0.
CountIn(census, k) == IF k \in DOMAIN census THEN census[k] ELSE 0

\* The census merged by the newest successful tick.
LastCensus == censusLog[Len(censusLog)]

\* The position in censusLog of the newest census that holds k (0: none).
LastSeen(k) ==
    LET at == {i \in 1..Len(censusLog) : k \in DOMAIN censusLog[i]}
    IN  IF at = {} THEN 0 ELSE CHOOSE i \in at : \A j \in at : j <= i

\* The number of successful ticks since k was last counted.
Quiet(k) == Len(censusLog) - LastSeen(k)

\* This step is a call of updateStats (by the loop, or the first call made
\* by startService) that ended without an exception.
OkTickStep == clock' = clock + 1 /\ lastTick' = "ok"

\* The store the call of this step worked on: the one of this state, or the
\* fresh one startService has just installed.
PreH == IF loopRunning THEN H ELSE <<>>
PreNumSamples == IF loopRunning THEN numSamples ELSE 0

C2_Prune ==
    [][OkTickStep =>
        /\ \A k \in Tracked' : HasNonZero(Samples(k)')
        /\ \A k \in DOMAIN LastCensus' : k \in Tracked'
        /\ \A k \in DOMAIN PreH :
               k \notin Tracked' =>
                   ~HasNonZero(LastN(Append(RingBuffer_iter(PreH[k]),
                                            CountIn(LastCensus', k)),
                                     sampleHistorySize))]_vars

\* One type has just left the store (its only count left the window),
\* the other is kept with zeros beside a non-zero sample.
C2_Witness ==
    /\ StorePresent
    /\ lastTick = "ok"
    /\ Len(censusLog) = sampleHistorySize + 1
    /\ \E k \in TypeNames : LastSeen(k) = 1 /\ k \notin Tracked
    /\ \E j \in Tracked : \E i \in 1..Len(Samples(j)) : Samples(j)[i] = 0

(* ------------------------------------------------------------------ C3 *)
\* C3: a type first seen in a tick that follows m recorded samples has, right
\* after the tick, m zeros followed by the count, cut to the newest C
\* entries; for m < C that is m + 1 entries.
C3_ZeroFill ==
    [][OkTickStep =>
        \A k \in DOMAIN LastCensus' :
            k \notin DOMAIN PreH =>
                /\ k \in Tracked'
                /\ Samples(k)' = LastN(Append(Zeros(PreNumSamples), LastCensus'[k]),
                                       sampleHistorySize)
                /\ PreNumSamples < sampleHistorySize =>
                       Len(Samples(k)') = PreNumSamples + 1]_vars

\* A type counted for the first time by the third tick or later on a store
\* whose window is not full yet: at least two zeros, then the count.
C3_Witness ==
    /\ StorePresent
    /\ lastTick = "ok"
    /\ Len(censusLog) >= 3
    /\ Len(censusLog) <= sampleHistorySize
    /\ \E k \in Tracked :
           /\ LastSeen(k) = Len(censusLog)
           /\ \A i \in 1..(Len(censusLog) - 1) : k \notin DOMAIN censusLog[i]
           /\ Samples(k) = Append(Zeros(Len(censusLog) - 1), LastCensus[k])

(* ------------------------------------------------------------------ C4 *)
\* This step is a call of updateStats whose census was taken.
CensusTakenStep == clock' = clock + 1 /\ lastTick' # "CensusError"

\* C4 as stated: a tracked type absent from the census gets a 0, no error is
\* raised and the type is still tracked after the tick.
C4_AbsentKept ==
    [][CensusTakenStep =>
        /\ lastTick' = "ok"
        /\ \A k \in DOMAIN PreH :
               k \notin DOMAIN LastCensus' =>
                   /\ k \in Tracked'
                   /\ Samples(k)'[Len(Samples(k)')] = 0]_vars

\* C4 (amended): a tracked type absent from the census gets a 0 and no error
\* is raised; the type is still tracked after the tick exactly when that 0
\* leaves a non-zero sample in its window, which is so whenever C >= 2 and
\* the type was counted in the tick before.
C4_AbsentZero ==
    [][CensusTakenStep =>
        /\ lastTick' = "ok"
        /\ \A k \in DOMAIN PreH :
               k \notin DOMAIN LastCensus' =>
                   LET old == RingBuffer_iter(PreH[k])
                       w == LastN(Append(old, 0), sampleHistorySize)
                   IN  /\ IF HasNonZero(w)
                          THEN k \in Tracked' /\ Samples(k)' = w
                          ELSE k \notin Tracked'
                       /\ (sampleHistorySize >= 2 /\ old # <<>>
                            /\ old[Len(old)] # 0) => k \in Tracked']_vars

\* A type counted in the tick before and absent from the newest census is
\* tracked with a 0 as its newest sample.
C4_Witness ==
    /\ StorePresent
    /\ lastTick = "ok"
    /\ Len(censusLog) >= 2
    /\ \E k \in Tracked :
           /\ k \notin DOMAIN LastCensus
           /\ k \in DOMAIN censusLog[Len(censusLog) - 1]
           /\ Samples(k)[Len(Samples(k))] = 0

(* ------------------------------------------------------------------ C5 *)
\* C5: a type last counted by successful tick t is tracked after each of the
\* ticks t .. t+C-1 and is not tracked after tick t+C; a type never counted
\* on this store is not tracked.  (Counting it again restarts the delay.)
C5_DeletionTiming ==
    StorePresent =>
        \A k \in TypeNames :
            /\ (LastSeen(k) > 0 /\ Quiet(k) <= sampleHistorySize - 1)
                   => k \in Tracked
            /\ (LastSeen(k) > 0 /\ Quiet(k) >= sampleHistorySize)
                   => k \notin Tracked
            /\ LastSeen(k) = 0 => k \notin Tracked

\* With C >= 2: one type last counted C ticks ago has just been removed,
\* another last counted C-1 ticks ago is still tracked.
C5_Witness ==
    /\ StorePresent
    /\ sampleHistorySize >= 2
    /\ \E k \in TypeNames :
           LastSeen(k) > 0 /\ Quiet(k) = sampleHistorySize /\ k \notin Tracked
    /\ \E j \in TypeNames :
           LastSeen(j) > 0 /\ Quiet(j) = sampleHistorySize - 1 /\ j \in Tracked

(* ------------------------------------------------------------------ C6 *)
\* C6: as long as only append is called the buffer never holds more than
\* maxSize elements, and it holds the newest maxSize appended values in
\* append order.
C6_RingInvariant ==
    ~rbExtended =>
        /\ RingBuffer_len(rb) <= rb.maxSize
        /\ RingBuffer_iter(rb) = LastN(rbLog, rb.maxSize)

\* Five appends on a buffer of size 3, the evicted values not all equal to
\* the kept ones.
C6_Witness ==
    /\ ~rbExtended
    /\ rb.maxSize = 3
    /\ Len(rbLog) = 5
    /\ RingBuffer_iter(rb) = SubSeq(rbLog, 3, 5)
    /\ SubSeq(rbLog, 1, 3) # SubSeq(rbLog, 3, 5)

(* ------------------------------------------------------------------ C7 *)
\* C7: extend evicts per element like append, so that a buffer on which
\* extend has been called holds at most maxSize elements, the newest
\* maxSize of the values handed to it.
C7_ExtendEvicts ==
    rbExtended =>
        /\ RingBuffer_len(rb) <= rb.maxSize
        /\ RingBuffer_iter(rb) = LastN(rbLog, rb.maxSize)

(* ------------------------------------------------------------------ C8 *)
\* C8: a call of updateStats whose census fails leaves the store it worked
\* on as it was: the tracked types, every history and the timestamps.
C8_FailedTickNoTrace ==
    [][(clock' = clock + 1 /\ lastTick' = "CensusError") =>
        IF loopRunning
        THEN history' = history /\ timestamps' = timestamps
        ELSE /\ history' = Some(<<>>)
             /\ timestamps' = Some(RingBuffer_init(sampleHistorySize))]_vars

\* A successful tick right after a failed one: the newest two timestamps lie
\* two clock units apart, and the store holds a tracked type.
C8_Witness ==
    /\ StorePresent
    /\ lastTick = "ok"
    /\ Tracked # {}
    /\ numSamples >= 2
    /\ RingBuffer_iter(TS)[numSamples] = RingBuffer_iter(TS)[numSamples - 1] + 2

(* ------------------------------------------------------------------ C9 *)
Failures == {"CensusError", "MemoryError", "AssertionError", "AttributeError"}

\* C9: while the service stays running, a failed call of updateStats is
\* followed by another call (within the clock explored).
C9_NextTickFires ==
    \A k \in 0..(MaxFaultClock - 1) :
        (running /\ lastTick \in Failures /\ clock = k)
            ~> (clock > k \/ ~running)

\* A call has fired after a failed one: a call that fails its assert can
\* only follow a call that failed part-way through the merge on this store.
C9_Witness ==
    /\ running
    /\ loopRunning
    /\ clock >= 2
    /\ lastTick = "AssertionError"

(* ----------------------------------------------------------------- C10 *)
\* C10 as stated: a failed length check aborts the tick loop.
C10_CheckFatal ==
    [][(clock' = clock + 1 /\ lastTick' = "AssertionError") =>
        ~loopRunning']_vars

\* C10 (amended): a failed length check is reported like any other failure;
\* the loop keeps running, on the store the failed call left.
C10_CheckAbsorbed ==
    [][(clock' = clock + 1 /\ lastTick' = "AssertionError") =>
        /\ loopRunning'
        /\ running'
        /\ StorePresent'
        /\ ~sanityCheck(H', TS')]_vars

\* After a failed check the loop runs on a store whose histories are not
\* all as long as the timestamps.
C10_Witness ==
    /\ lastTick = "AssertionError"
    /\ loopRunning
    /\ StorePresent
    /\ \E k \in Tracked : RingBuffer_len(H[k]) # numSamples

(* ----------------------------------------------------------------- C11 *)
\* C11: a sampler with a non-positive sample-history size never exists:
\* construction raises before any startService.
C11_FailFast == sampleHistorySize > 0

(* ----------------------------------------------------------------- C12 *)
\* A view of the store in which no merge is half done: every history is as
\* long as the timestamps and none is left to prune; a dict without a
\* timestamp buffer (a start that failed) tracks nothing.
CompleteStore(v) ==
    v.history # None =>
        LET h == Val(v.history)
        IN  IF v.timestamps = None THEN DOMAIN h = {}
            ELSE \A k \in DOMAIN h :
                    /\ RingBuffer_len(h[k]) = RingBuffer_len(Val(v.timestamps))
                    /\ ~allZero(h[k])

\* A page in which no merge is half done: every chart has the same number of
\* samples and none is all zeros.
CompletePage(page) ==
    /\ \A j, k \in DOMAIN page : Len(page[j].data.values) = Len(page[k].data.values)
    /\ \A k \in DOMAIN page : page[k].max > 0

\* A chart of the graph resource in which no merge is half done: it has
\* samples and they are not all zeros.
CompleteChart(chart) == chart.data # <<>> /\ HasNonZero(chart.data)

IsStoreView(v) == "history" \in DOMAIN v
IsPage(v) == "page" \in DOMAIN v
IsChart(v) == "chart" \in DOMAIN v

C13_SnapshotImmutable == readerHeld = readerSeen

(* ----------------------------------------------------------------- C14 *)
ReadOps == {"history", "render_GET"}

\* C14: a read changes nothing in the sampler, and a read that directly
\* follows a read of the same kind (no merge, start or stop in between)
\* returns the same data.
C14_IdempotentRead ==
    [][called'.op \in ReadOps =>
        /\ UNCHANGED <<sampleHistorySize, history, timestamps, loopRunning,
                       running, clock, lastTick, errs>>
        /\ (called = called' /\ called.raised = "none") =>
               readerSeen' = readerSeen]_vars

\* A page rendered from a running store of two types whose charts are
\* padded, the store being what it was before the read.
C14_Witness ==
    /\ called = Called("render_GET", "none")
    /\ loopRunning
    /\ StorePresent
    /\ Cardinality(Tracked) = 2
    /\ \E v \in readerSeen :
           /\ IsPage(v)
           /\ DOMAIN v.page = Tracked
           /\ \A k \in Tracked :
                  /\ v.page[k].data.values = Samples(k)
                  /\ v.page[k].data.pad > 0

(* ----------------------------------------------------------------- C15 *)
\* This step is a startService that was accepted (it raised nothing).
StartStep == called' = Called("startService", "none") /\ clock' = clock + 1

\* The values held by the timestamp buffer of a present store.
Stamps == {RingBuffer_iter(TS)[i] : i \in 1..numSamples}

\* C15: an accepted startService leaves a store that holds nothing but the
\* result of its own first call of updateStats (at most one timestamp, the
\* time of the start, and per counted type that one count), and afterwards
\* the only timestamp a step adds to the store is the time of that step: so
\* nothing recorded before a stop is in the store after the restart.
C15_RestartFresh ==
    [][/\ StartStep =>
            /\ StorePresent'
            /\ Stamps' \subseteq {clock}
            /\ \A k \in Tracked' : Samples(k)' = <<CountIn(LastCensus', k)>>
            /\ lastTick' = "ok" => Tracked' = DOMAIN LastCensus' /\ Stamps' = {clock}
            /\ lastTick' # "ok" => Tracked' = {}
       /\ StorePresent' => Stamps' \subseteq
                               (IF StorePresent THEN Stamps ELSE {}) \cup {clock}
      ]_vars

\* A restart: the sampler ran for two samples, was stopped, and has been
\* started again; the store holds the one sample taken since.
C15_Witness ==
    /\ called = Called("startService", "none")
    /\ clock >= 3
    /\ StorePresent
    /\ numSamples = 1
    /\ sampleHistorySize >= 2
    /\ Tracked # {}

(* ----------------------------------------------------------------- C16 *)
\* This step is a stopService that was accepted (it raised nothing).
StopStep == called' = Called("stopService", "none") /\ called' # called

\* This step is a call of updateStats made by the loop.
LoopCallStep == called'.op = "loop" /\ clock' = clock + 1

\* C16: an accepted stopService leaves the loop stopped and both attributes
\* None, and the loop calls updateStats only in a started service: between a
\* stop and the next start no tick runs.
C16_StopCancels ==
    [][/\ StopStep =>
            /\ loopRunning /\ ~loopRunning'
            /\ ~running'
            /\ history' = None
            /\ timestamps' = None
            /\ clock' = clock
       /\ LoopCallStep => running /\ loopRunning
      ]_vars

\* The sampler was stopped after it had recorded three samples.
C16_Witness ==
    /\ called = Called("stopService", "none")
    /\ ~loopRunning
    /\ ~running
    /\ history = None
    /\ timestamps = None
    /\ clock >= 3
    /\ lastTick = "ok"

(* ----------------------------------------------------------------- C17 *)
\* C17: a startService issued while the loop runs raises (the assert of
\* LoopingCall.start), makes no call of updateStats and leaves the one
\* running loop as it is: no second schedule is started.
C17_StartRejected ==
    [][(called'.op = "startService" /\ loopRunning) =>
            /\ called'.raised = "AssertionError"
            /\ loopRunning'
            /\ running' = running
            /\ clock' = clock
            /\ lastTick' = lastTick
      ]_vars

\* A start was rejected while the loop ran on a store of two samples.
C17_Witness ==
    /\ called = Called("startService", "AssertionError")
    /\ loopRunning
    /\ running
    /\ sampleHistorySize >= 2
    /\ clock = 2
    /\ lastTick = "ok"

(* ----------------------------------------------------------------- C18 *)
\* C18: a stopService issued while the loop does not run raises, and leaves
\* the sampler stopped, without a schedule and without a store.
C18_StopRejected ==
    [][(called'.op = "stopService" /\ ~loopRunning) =>
            /\ called'.raised = "AssertionError"
            /\ ~loopRunning'
            /\ ~running'
            /\ history' = None
            /\ timestamps' = None
      ]_vars

\* The same, for the samplers whose size is positive only.
C18_ValidSizeOnly ==
    [][(called'.op = "stopService" /\ ~loopRunning /\ sampleHistorySize > 0) =>
            /\ called'.raised = "AssertionError"
            /\ ~loopRunning'
            /\ ~running'
            /\ history' = None
            /\ timestamps' = None
      ]_vars

(* ----------------------------------------------------------------- C19 *)
\* C19: at most one call of updateStats is under way at any time, and while
\* one is under way every step is a step of that call (the next firing, a
\* start, a stop or a read waits until it has returned): two merges never
\* interleave on the store.
C19_NoOverlap ==
    [][/\ Len(inFlight') <= 1
       /\ inFlight # <<>> =>
            \/ inFlight' = <<>>
            \/ /\ inFlight'[1].live = inFlight[1].live
               /\ inFlight'[1].first = inFlight[1].first
               /\ \/ inFlight'[1].done = inFlight[1].done + 1
                  \/ inFlight'[1].phase # inFlight[1].phase
                  \/ inFlight'[1] = inFlight[1]
               /\ UNCHANGED <<loopRunning, running, clock, called, readerSeen>>
      ]_vars

\* A call made by the loop is half-way through its first loop: one of two
\* groups is merged into a store that already holds a sample.
C19_Witness ==
    /\ Len(inFlight) = 1
    /\ ~Top.first
    /\ Top.phase = "merge"
    /\ Top.done = 1
    /\ Len(TopGroups) = 2
    /\ StorePresent
    /\ numSamples = 1
    /\ \E k \in Tracked : RingBuffer_len(H[k]) = 2

(* ----------------------------------------------------------------- C20 *)
\* C20: a call of updateStats is under way only on a present store and a
\* running loop (never before startService has created the store, never
\* after stopService has dropped it), and no call has ever found the store
\* absent.
C20_TickHasStore ==
    /\ inFlight # <<>> => (StorePresent /\ loopRunning)
    /\ lastTick # "AttributeError"

\* The sampler was stopped right after a call made by the loop had returned.
C20_Witness ==
    /\ called = Called("stopService", "none")
    /\ inFlight = <<>>
    /\ history = None
    /\ lastTick = "ok"
    /\ clock = 2

(* ----------------------------------------------------------------- C21 *)
\* The timestamps of a store, none when there is no buffer.
StampsOf(ts) ==
    IF ts = None THEN {}
    ELSE {RingBuffer_iter(Val(ts))[i] : i \in 1..RingBuffer_len(Val(ts))}

\* This step records a timestamp: the buffer holds a value it did not hold.
RecordsStamp == StampsOf(timestamps') \ StampsOf(timestamps) # {}

\* This step is the return of a call of updateStats (or its failure).
CallEndsStep == clock' = clock + 1

Min2(a, b) == IF a <= b THEN a ELSE b

PreSamples(k) ==
    IF k \in DOMAIN PreH THEN RingBuffer_iter(PreH[k]) ELSE Zeros(PreNumSamples)

\* C22: a call of updateStats whose census was taken ends without an
\* exception, and every type tracked at its end holds what it held before
\* plus exactly one sample, the census count if the type was counted and 0
\* if it was not (cut to the newest sampleHistorySize); every counted type
\* and every type tracked before is either tracked so or pruned as all zeros.
C22_OneSamplePerType ==
    [][CensusTakenStep =>
        /\ lastTick' = "ok"
        /\ \A k \in Tracked' :
               Samples(k)' = LastN(Append(PreSamples(k), CountIn(LastCensus', k)),
                                   sampleHistorySize)
        /\ \A k \in (DOMAIN PreH \cup DOMAIN LastCensus') \ Tracked' :
               ~HasNonZero(LastN(Append(PreSamples(k), CountIn(LastCensus', k)),
                                 sampleHistorySize))
      ]_vars

\* A tick that gave a count to one tracked type and a 0 to another, both
\* tracked before and after.
C22_Witness ==
    /\ StorePresent
    /\ lastTick = "ok"
    /\ called.op = "loop"
    /\ sampleHistorySize = 3
    /\ numSamples = 3
    /\ \E j, k \in Tracked :
           /\ Samples(j) = <<1, 1, 0>>
           /\ Samples(k) = <<0, 1, 1>>

(* ----------------------------------------------------------------- C23 *)
\* C23: at every statement boundary, the point between the zero-fill of a
\* new history and the append of its first count included, every tracked
\* history and the timestamp buffer are RingBuffers of the configured
\* sampleHistorySize and hold at most that many samples.
C23_AtMostC ==
    /\ \A ts \in timestamps :
           /\ ts.maxSize = sampleHistorySize
           /\ RingBuffer_len(ts) <= sampleHistorySize
    /\ \A h \in history : \A k \in DOMAIN h :
           /\ h[k].maxSize = sampleHistorySize
           /\ RingBuffer_len(h[k]) <= sampleHistorySize

\* A call is between the zero-fill of a new history and the append of its
\* count, on a store whose timestamp buffer is full.
C23_Witness ==
    /\ inFlight # <<>>
    /\ Top.phase = "merge"
    /\ StorePresent
    /\ numSamples = sampleHistorySize
    /\ Top.done < Len(TopGroups)
    /\ TopKey \in Tracked
    /\ Samples(TopKey) = Zeros(sampleHistorySize)

(* ----------------------------------------------------------------- C24 *)
\* C24: whatever a call of updateStats does (returns, or raises in the
\* enumeration, in the merge or on its assert), safeCall lets nothing out
\* (the handler returns and the loop stays running), calls err exactly once
\* with the exception raised, and does not call err when nothing was raised.
C24_ErrOnce ==
    [][CallEndsStep =>
        /\ called'.raised = "none"
        /\ loopRunning'
        /\ errs' = (IF lastTick' = "ok" THEN <<>> ELSE <<lastTick'>>)
      ]_vars

\* A call of the loop raised in the middle of its merge and err was called
\* with that exception.
C24_Witness ==
    /\ called = Called("loop", "none")
    /\ loopRunning
    /\ lastTick = "MemoryError"
    /\ errs = <<"MemoryError">>
    /\ StorePresent
    /\ Tracked # {}

(* ----------------------------------------------------------------- C25 *)
\* The censuses of the last min(n, sampleHistorySize) successful ticks.
Window == LastN(censusLog, sampleHistorySize)

\* The counts of k over the window, oldest first, absence counted as 0.
WindowCounts(k) == [i \in 1..Len(Window) |-> CountIn(Window[i], k)]

\* C25: between calls, the tracked types are exactly the types counted in at
\* least one census of the window, and the history of each is its counts
\* over the window, oldest first, absence counted as 0: whether a type was
\* pruned and created again in between makes no difference.
C25_PruneTransparent ==
    StorePresent =>
        /\ Tracked = {k \in TypeNames : HasNonZero(WindowCounts(k))}
        /\ \A k \in Tracked : Samples(k) = WindowCounts(k)

\* A type is counted again after two ticks without it on a store of size 2
\* (were it tracked before, it has been pruned in between), next to a type
\* that was counted throughout.
C25_Witness ==
    /\ StorePresent
    /\ lastTick = "ok"
    /\ sampleHistorySize = 2
    /\ Len(censusLog) = 3
    /\ clock = 4
    /\ \E j, k \in Tracked :
           /\ k \notin DOMAIN censusLog[1] /\ k \notin DOMAIN censusLog[2]
           /\ Samples(k) = <<0, 1>>
           /\ Samples(j) = <<1, 1>>

(* ----------------------------------------------------------------- C26 *)
\* The newest sample of a tracked type.
Newest(k) == Samples(k)[Len(Samples(k))]

\* The sum of f over the names of NameOrder from position i on.
RECURSIVE SumFrom(_, _)
SumFrom(f, i) ==
    IF i > Len(NameOrder) THEN 0
    ELSE (IF NameOrder[i] \in DOMAIN f THEN f[NameOrder[i]] ELSE 0)
             + SumFrom(f, i + 1)

\* C26: a call of updateStats on any heap of at most MaxGroupCount objects
\* per type ends without an exception; every type with a live object is
\* tracked afterwards and has received one sample, the number of its live
\* objects (at least 1); and these samples sum to the number of objects
\* enumerated.
C26_CensusGrouping ==
    [][CensusTakenStep =>
        /\ lastTick' = "ok"
        /\ DOMAIN LastCensus' \subseteq Tracked'
        /\ \A k \in DOMAIN LastCensus' :
               /\ Samples(k)' = LastN(Append(PreSamples(k), LastCensus'[k]),
                                      sampleHistorySize)
               /\ Newest(k)' = LastCensus'[k]
               /\ Newest(k)' >= 1
        /\ SumFrom([k \in DOMAIN LastCensus' |-> Newest(k)'], 1)
               = SumFrom(LastCensus', 1)
      ]_vars

\* A tick counted three objects of one type and two of another, both
\* tracked before.
C26_Witness ==
    /\ StorePresent
    /\ lastTick = "ok"
    /\ called.op = "loop"
    /\ sampleHistorySize >= 2
    /\ \E j, k \in Tracked :
           /\ Len(Samples(j)) = 2 /\ Newest(j) = 3 /\ Samples(j)[1] = 1
           /\ Len(Samples(k)) = 2 /\ Newest(k) = 2 /\ Samples(k)[1] = 3

C28_RejectedStartNoEffect ==
    [][(called'.op = "startService" /\ loopRunning) =>
            /\ history' = history
            /\ timestamps' = timestamps
      ]_vars

\* The requests the web resources serve from the store: the page of the
\* browser, and the two halves of a graph request.
RequestOps == {"render_GET", "GraphResource.getChild", "GraphResource.render_GET"}

\* This step is one of those requests, served between two calls of updateStats.
RequestStep == called'.op \in RequestOps /\ inFlight = <<>> /\ inFlight' = <<>>

\* The request failed on the absent store and handed nothing to the client.
FailsOnAbsentStore ==
    /\ called'.raised \in {"AttributeError", "TypeError"}
    /\ UNCHANGED readerVars
    /\ request' = None

\* C29: a request served while the sampler is stopped (the loop does not
\* run) fails with an error and returns no page, no chart and no samples of
\* an earlier run.
C29_StoppedReadFails ==
    [][(RequestStep /\ ~loopRunning) => FailsOnAbsentStore]_vars

\* C29, narrowed to the two situations the claim names: no startService has
\* been issued since construction or since the last accepted stopService.
\* (Supporting fact: it leaves out the sampler that is stopped because
\* startService failed on sampleHistorySize = 0 after creating the dict.)
C29_NeverStartedOrStopped ==
    [][(RequestStep /\ ~loopRunning /\ ~startIssued) => FailsOnAbsentStore]_vars

\* A request failed on the absent store after a run that had taken samples.
C29_Witness ==
    /\ ~loopRunning
    /\ ~startIssued
    /\ clock >= 1
    /\ called.op \in RequestOps
    /\ called.raised \in {"AttributeError", "TypeError"}

\* This step is the render_GET of a graph request whose name getChild accepted.
GraphRenderStep == request # None /\ request' = None

\* C30: when GraphResource.render_GET looks up the name GraphResource.getChild
\* accepted, the store is there and still tracks the name: the lookup raises
\* neither TypeError nor KeyError and the client is redirected to the chart of
\* the samples of that type.
C30_AcceptedStillTracked ==
    [][GraphRenderStep =>
            /\ history # None
            /\ Val(request) \in Tracked
            /\ called' = Called("GraphResource.render_GET", "none")
            /\ readerSeen' = Some([chart |-> graphChart(H[Val(request)])])
      ]_vars

\* A graph request was served in a running sampler that has called updateStats
\* twice and does not track every type.
C30_Witness ==
    /\ called = Called("GraphResource.render_GET", "none")
    /\ request = None
    /\ loopRunning
    /\ clock >= 2
    /\ Tracked # TypeNames
    /\ \E k \in Tracked : readerSeen = Some([chart |-> graphChart(H[k])])

(* ----------------------------------------------------------------- C31 *)
\* This step is a startService that failed on a non-positive size.
FailedStartStep ==
    called'.op = "startService" /\ RingBuffer_init_raises(sampleHistorySize)

\* C31: a startService that fails because sampleHistorySize is not positive
\* leaves the sampler fully stopped: no dict of histories, no timestamp
\* buffer, no running loop.
C31_FailedStartStopped ==
    [][FailedStartStep =>
            /\ history' = None
            /\ timestamps' = None
            /\ ~loopRunning'
      ]_vars

\* C31, without the dict: the failed startService leaves no timestamp buffer
\* and no running loop. (Supporting fact: the part of the claim that holds.)
C31_NoBufferNoLoop ==
    [][FailedStartStep => (timestamps' = None /\ ~loopRunning')]_vars

(* ----------------------------------------------------------------- C32 *)
\* Debugging has been switched on and then off again.
ToggledOnAndOff == debugLog = <<"enableDebug", "disableDebug">>

\* C32: after enableDebug followed by disableDebug every call of updateStats
\* does what it does in a sampler whose debugging was never toggled: the
\* debug call raises nothing, the call returns normally and records its
\* timestamp.
C32_DebugRoundTrip ==
    [][(CallEndsStep /\ ToggledOnAndOff) =>
            /\ lastTick' = "ok"
            /\ errs' = <<>>
            /\ RecordsStamp
      ]_vars

\* C32, for the sampler whose debugging is switched on or was never toggled:
\* every call of updateStats returns normally and records its timestamp.
\* (Supporting fact: only disableDebug breaks the calls.)
C32_UntilDisabled ==
    [][(CallEndsStep /\ debug # "unbound") =>
            /\ lastTick' = "ok"
            /\ errs' = <<>>
            /\ RecordsStamp
      ]_vars

====
